---- MODULE Spec2Model ----
(***************************************************************************)
(* registerSubdomain.py: main() loads five environment variables, reads    *)
(* the subdomain from sys.argv[1], builds an XML-RPC proxy and runs         *)
(* addSubdomain, time.sleep(1), addZoneRecord.  One statement of main() is  *)
(* executed per step; pc is the source line of the next statement.          *)
(***************************************************************************)
EXTENDS Integers, Sequences, FiniteSets, TLC

\* Bounds of the model.
NumValues == 1      \* distinct string contents per input
MaxArgs   == 2      \* positional command-line arguments after the script name

-----------------------------------------------------------------------------
\* Python values.

None    == [none |-> TRUE]
Unbound == [unbound |-> TRUE]
NoFault == [type |-> "", line |-> 0]

Str(i)    == [scheme |-> "", str |-> i]
Uri(s, i) == [scheme |-> s, str |-> i]

Schemes == {"http", "https", "ftp"}

EnvNames ==
  {"DNS_API_USER", "DNS_API_PASS", "SCHOOL_IP_ADDRESS", "DNS_API_URI", "DOMAIN_SUFFIX"}

\* The strings a variable of the environment can hold.
EnvStrings(name) ==
  IF name = "DNS_API_URI"
    THEN {Uri(s, i) : s \in Schemes, i \in 1..NumValues}
    ELSE {Str(i) : i \in 1..NumValues}

\* None when the variable is unset.
EnvValues(name) == {None} \cup EnvStrings(name)

Environment(user, pass, ip, uri, suffix) ==
  [DNS_API_USER |-> user, DNS_API_PASS |-> pass, SCHOOL_IP_ADDRESS |-> ip,
   DNS_API_URI |-> uri, DOMAIN_SUFFIX |-> suffix]

Environments ==
  {Environment(user, pass, ip, uri, suffix) :
     user \in EnvValues("DNS_API_USER"), pass \in EnvValues("DNS_API_PASS"),
     ip \in EnvValues("SCHOOL_IP_ADDRESS"), uri \in EnvValues("DNS_API_URI"),
     suffix \in EnvValues("DOMAIN_SUFFIX")}

\* sys.argv: the script name, then at most MaxArgs arguments.
ScriptName == Str(0)
ArgvSet ==
  UNION {{<<ScriptName>> \o a : a \in [1..k -> {Str(i) : i \in 1..NumValues}]} : k \in 0..MaxArgs}

\* The names main() assigns (its local variables).
LocalNames ==
  {"global_api_username", "global_api_password", "school_ip_address",
   "global_dns_uri", "domain_suffix", "subdomain", "client", "response",
   "record_obj"}

\* The names bound at module level by the import statements and by def main.
ModuleGlobals == {"sys", "time", "xmlrpc", "os", "load_dotenv", "main"}

\* What the remote service does with a request that reaches it.
RemoteOutcomes == {"ok", "Fault", "OSError", "ResponseError"}

\* The statements of main(), by source line, in program order.
Lines == <<11, 13, 14, 15, 16, 17, 19, 21, 22, 24, 25, 31>>
Return == 33

NextLine(line) ==
  LET i == CHOOSE j \in 1..Len(Lines) : Lines[j] = line
  IN  IF i < Len(Lines) THEN Lines[i + 1] ELSE Return

-----------------------------------------------------------------------------
VARIABLES
  environ,    \* os.environ restricted to the five names
  argv,       \* sys.argv
  pc,         \* line of the next statement of main()
  status,     \* "running", "returned" or "faulted" (unhandled exception)
  locals,     \* local variables of main()
  fault,      \* the unhandled exception and the line that raised it
  calls,      \* requests sent to the remote service, in order
  sleeps,     \* for each completed time.sleep: the number of requests sent before it
  executed    \* lines of the statements executed so far, in order

vars == <<environ, argv, pc, status, locals, fault, calls, sleeps, executed>>

\* The part of the state a statement of main() can change.
Frame ==
  [environ |-> environ, pc |-> pc, status |-> status, locals |-> locals,
   fault |-> fault, calls |-> calls, sleeps |-> sleeps]

-----------------------------------------------------------------------------
\* Control flow.

\* Variant: the exception is caught and ignored, control falls to the next line.
RaiseSwallowed(s, type) ==
  LET f == [s EXCEPT !.fault = [type |-> type, line |-> s.pc]]
  IN  IF NextLine(s.pc) = Return
        THEN [f EXCEPT !.pc = Return, !.status = "returned"]
        ELSE [f EXCEPT !.pc = NextLine(s.pc)]

\* Variant: the exception is caught and the statement is run again.
RaiseRetried(s, type) == [s EXCEPT !.fault = [type |-> type, line |-> s.pc]]

\* An exception raised at the current line; main() has no try/except.
Raise(s, type) ==
  [s EXCEPT !.status = "faulted", !.fault = [type |-> type, line |-> s.pc]]

\* The statement completed; control falls to the next line.
Advance(s) ==
  IF NextLine(s.pc) = Return
    THEN [s EXCEPT !.pc = Return, !.status = "returned"]
    ELSE [s EXCEPT !.pc = NextLine(s.pc)]

Assign(s, name, value) == [s EXCEPT !.locals[name] = value]

-----------------------------------------------------------------------------
\* Line 11: load_dotenv() adds the entries of the .env file to os.environ
\* without replacing a variable that is already set.
FileValues(env, name) == IF env[name] # None THEN {None} ELSE EnvValues(name)

DotenvFiles(env) ==
  {Environment(user, pass, ip, uri, suffix) :
     user \in FileValues(env, "DNS_API_USER"), pass \in FileValues(env, "DNS_API_PASS"),
     ip \in FileValues(env, "SCHOOL_IP_ADDRESS"), uri \in FileValues(env, "DNS_API_URI"),
     suffix \in FileValues(env, "DOMAIN_SUFFIX")}

load_dotenv(s, file) ==
  Advance([s EXCEPT !.environ =
             [n \in EnvNames |-> IF s.environ[n] # None THEN s.environ[n] ELSE file[n]]])

\* Variant: an unset name reads as the empty string.
getenvDefaultEmpty(env, name) == IF env[name] = None THEN Str(0) ELSE env[name]

\* Lines 13-17: os.getenv(name) is the value, or None when the name is unset.
getenv(env, name) == env[name]

EnvNameAt(line) ==
  CASE line = 13 -> "DNS_API_USER"
    [] line = 14 -> "DNS_API_PASS"
    [] line = 15 -> "SCHOOL_IP_ADDRESS"
    [] line = 16 -> "DNS_API_URI"
    [] line = 17 -> "DOMAIN_SUFFIX"

LocalAt(line) ==
  CASE line = 13 -> "global_api_username"
    [] line = 14 -> "global_api_password"
    [] line = 15 -> "school_ip_address"
    [] line = 16 -> "global_dns_uri"
    [] line = 17 -> "domain_suffix"

load_variable(s) ==
  Advance(Assign(s, LocalAt(s.pc), getenv(s.environ, EnvNameAt(s.pc))))

\* Line 19: subdomain = sys.argv[1].  Python indexes from 0.
InRange(seq, i) == i + 1 <= Len(seq)
PyIndex(seq, i) == seq[i + 1]

\* Variant: a missing argument reads as None.
read_argumentOptional(s, args) ==
  Advance(Assign(s, "subdomain", IF InRange(args, 1) THEN PyIndex(args, 1) ELSE None))

read_argument(s, args) ==
  IF InRange(args, 1)
    THEN Advance(Assign(s, "subdomain", PyIndex(args, 1)))
    ELSE Raise(s, "IndexError")

\* Line 21: ServerProxy(uri, encoding) accepts http and https URIs only and
\* opens no connection.
SupportedUri(uri) == uri # None /\ uri.scheme \in {"http", "https"}

ServerProxy(s) ==
  IF SupportedUri(s.locals["global_dns_uri"])
    THEN Advance(Assign(s, "client", [proxy |-> s.locals["global_dns_uri"]]))
    ELSE Raise(s, "OSError")

-----------------------------------------------------------------------------
\* Name resolution in main(): a name main() assigns is a local, any other
\* name is looked up in the module's globals; a name bound in neither has no
\* value and its evaluation raises NameError.
\* Variant: `domain` names the value loaded from DOMAIN_SUFFIX.
LookupNameDomainSuffix(s, name) ==
  IF name = "domain" THEN s.locals["domain_suffix"]
  ELSE IF name \in LocalNames THEN s.locals[name]
  ELSE IF name \in ModuleGlobals THEN [global |-> name]
  ELSE Unbound

LookupName(s, name) ==
  IF name \in LocalNames THEN s.locals[name]
  ELSE IF name \in ModuleGlobals THEN [global |-> name]
  ELSE Unbound

\* xmlrpc.client marshals the arguments with allow_none off: a None among
\* them, or inside a dict among them, raises TypeError before anything is sent.
HasNone(v) ==
  \/ v = None
  \/ /\ "dict" \in DOMAIN v
     /\ \E k \in DOMAIN v.dict : v.dict[k] = None

\* One call statement `response = client.<method>(<names>)`: the argument
\* expressions are evaluated, the request is marshalled and sent, and the
\* reply is assigned; a fault reply, a transport error or an unparsable reply
\* is raised to the caller.
Request(s, method, names, outcome) ==
  LET args == [i \in 1..Len(names) |-> LookupName(s, names[i])]
  IN  IF LookupName(s, "client") = Unbound \/ \E i \in 1..Len(names) : args[i] = Unbound
        THEN Raise(s, "NameError")
      ELSE IF \E i \in 1..Len(names) : HasNone(args[i])
        THEN Raise(s, "TypeError")
      ELSE LET sent == [s EXCEPT !.calls = Append(@, [method |-> method, args |-> args])]
           IN  IF outcome = "ok"
                 THEN Advance(Assign(sent, "response", [response |-> method]))
                 ELSE Raise(sent, outcome)

\* Line 22.
addSubdomain(s, outcome) ==
  Request(s, "addSubdomain",
          <<"global_api_username", "global_api_password", "domain", "subdomain">>,
          outcome)

\* Line 24: time.sleep(1).
sleep(s) == Advance([s EXCEPT !.sleeps = Append(@, Len(s.calls))])

\* Lines 25-30.
record_obj(rdata) ==
  [dict |-> [type |-> "A", ttl |-> 3600, priority |-> 1, rdata |-> rdata, record_id |-> 10]]

build_record(s) ==
  Advance(Assign(s, "record_obj", record_obj(LookupName(s, "school_ip_address"))))

\* Line 31.
addZoneRecord(s, outcome) ==
  Request(s, "addZoneRecord",
          <<"global_api_username", "global_api_password", "domain", "subdomain",
            "record_obj">>,
          outcome)

-----------------------------------------------------------------------------
\* What the statement at s.pc reads from outside the program.
Inputs(s) ==
  IF s.pc = 11 THEN DotenvFiles(s.environ)
  ELSE IF s.pc \in {22, 31} THEN RemoteOutcomes
  ELSE {"none"}

\* The statement of main() at line s.pc.
Exec(s, args, in) ==
  CASE s.pc = 11      -> load_dotenv(s, in)
    [] s.pc \in 13..17 -> load_variable(s)
    [] s.pc = 19      -> read_argument(s, args)
    [] s.pc = 21      -> ServerProxy(s)
    [] s.pc = 22      -> addSubdomain(s, in)
    [] s.pc = 24      -> sleep(s)
    [] s.pc = 25      -> build_record(s)
    [] s.pc = 31      -> addZoneRecord(s, in)

Init ==
  /\ environ \in Environments
  /\ argv \in ArgvSet
  /\ pc = 11
  /\ status = "running"
  /\ locals = [n \in LocalNames |-> Unbound]
  /\ fault = NoFault
  /\ calls = <<>>
  /\ sleeps = <<>>
  /\ executed = <<>>

\* main() executes its next statement.
main ==
  /\ status = "running"
  /\ \E in \in Inputs(Frame) :
       LET r == Exec(Frame, argv, in)
       IN  /\ environ' = r.environ
           /\ pc' = r.pc
           /\ status' = r.status
           /\ locals' = r.locals
           /\ fault' = r.fault
           /\ calls' = r.calls
           /\ sleeps' = r.sleeps
  /\ executed' = Append(executed, pc)
  /\ UNCHANGED argv

Next == main

Spec == Init /\ [][Next]_vars

-----------------------------------------------------------------------------
\* Vocabulary of the properties.

Terminated == status # "running"
ArgumentPresent == InRange(argv, 1)
Count(seq, x) == Cardinality({i \in DOMAIN seq : seq[i] = x})
Issued(method) == Cardinality({i \in DOMAIN calls : calls[i].method = method})
RemoteFailures == RemoteOutcomes \ {"ok"}
LoadingLines == {11, 13, 14, 15, 16, 17}

\* All five variables are set and the URI is one ServerProxy accepts.
ValidConfiguration ==
  /\ \A n \in EnvNames : environ[n] # None
  /\ SupportedUri(environ["DNS_API_URI"])

-----------------------------------------------------------------------------
\* C1: with a valid configuration and a subdomain argument, a run that the
\* remote service does not fail issues exactly two requests: addSubdomain
\* first, then addZoneRecord, both with the loaded credentials and the
\* argument as subdomain.
C1_TwoCallsInOrder ==
  (Terminated /\ ValidConfiguration /\ ArgumentPresent /\ fault.type \notin RemoteFailures)
    => /\ Len(calls) = 2
       /\ calls[1].method = "addSubdomain"
       /\ calls[2].method = "addZoneRecord"
       /\ \A i \in 1..2 :
            /\ calls[i].args[1] = environ["DNS_API_USER"]
            /\ calls[i].args[2] = environ["DNS_API_PASS"]
            /\ calls[i].args[4] = PyIndex(argv, 1)

\* C3: an exception raised by a statement ends the run at that statement:
\* the run is faulted, the failing statement is the last one executed, and a
\* failure of the addSubdomain statement leaves the sleep undone and
\* addZoneRecord unissued.
C3_FaultTerminates ==
  fault # NoFault
    => /\ status = "faulted"
       /\ pc = fault.line
       /\ executed # <<>>
       /\ executed[Len(executed)] = fault.line
       /\ \A i \in DOMAIN executed : executed[i] <= fault.line
       /\ fault.line <= 22 => (sleeps = <<>> /\ Issued("addZoneRecord") = 0)

C3_Witness ==
  /\ status = "faulted"
  /\ fault.line = 22
  /\ 22 \in {executed[i] : i \in DOMAIN executed}

\* C4: loading the configuration never fails: each of the five locals holds
\* what the environment holds, None for an unset variable; and a run in which
\* one of the five variables is unset does not return from main().
C4_RequiredNotValidated ==
  /\ fault # NoFault => fault.line \notin LoadingLines
  /\ \A line \in 13..17 :
       pc > line => locals[LocalAt(line)] = environ[EnvNameAt(line)]
  /\ \A n \in EnvNames :
       (Terminated /\ environ[n] = None) => (status = "faulted" /\ Len(calls) < 2)

C4_Witness ==
  /\ Terminated
  /\ ArgumentPresent
  /\ environ["DOMAIN_SUFFIX"] = None
  /\ locals["domain_suffix"] = None
  /\ \A n \in EnvNames \ {"DOMAIN_SUFFIX"} : environ[n] # None
  /\ SupportedUri(environ["DNS_API_URI"])

\* C6: no statement that calls the remote service is executed twice, no
\* method is requested twice, and addSubdomain is never requested after
\* addZoneRecord.
C6_NoRetry ==
  /\ Count(executed, 22) <= 1
  /\ Count(executed, 31) <= 1
  /\ Issued("addSubdomain") <= 1
  /\ Issued("addZoneRecord") <= 1
  /\ \A i, j \in DOMAIN calls :
       (i < j /\ calls[i].method = "addZoneRecord") => calls[j].method # "addSubdomain"

C6_Witness ==
  /\ Terminated
  /\ fault.line = 22
  /\ Count(executed, 22) = 1

\* C7: without a command-line argument the run faults with IndexError at
\* line 19, after the five variables are loaded and before the client is
\* built; nothing is requested and nothing sleeps.
C7_MissingArgument ==
  ~ArgumentPresent
    => /\ pc <= 19
       /\ calls = <<>>
       /\ sleeps = <<>>
       /\ locals["client"] = Unbound
       /\ 19 \in {executed[i] : i \in DOMAIN executed}
            => /\ status = "faulted"
               /\ fault = [type |-> "IndexError", line |-> 19]
               /\ executed = <<11, 13, 14, 15, 16, 17, 19>>

C7_Witness ==
  /\ ~ArgumentPresent
  /\ status = "faulted"
  /\ fault.line = 19

\* C8: `domain` is bound nowhere: a run that executes line 22 faults there
\* with NameError, no request is ever sent, and so the value of DOMAIN_SUFFIX
\* reaches no request.
C8_DomainUndefined ==
  /\ calls = <<>>
  /\ status # "returned"
  /\ 22 \in {executed[i] : i \in DOMAIN executed}
       => /\ status = "faulted"
          /\ fault = [type |-> "NameError", line |-> 22]

C8_Witness ==
  /\ locals["client"] # Unbound
  /\ locals["subdomain"] # Unbound
  /\ fault = [type |-> "NameError", line |-> 22]

====
